---- MODULE Spec2Model ----
(***************************************************************************)
(* A state-machine model of lzhaiofetcher.AioFetcher (fetcher.py).         *)
(*                                                                         *)
(* One AioFetcher object is modelled together with its client: the         *)
(* coroutines the client starts on it (fetch, fetch_all,                   *)
(* fetch_all_concurrent, close) and the network that answers the GET       *)
(* requests.  A step of the model is what one coroutine does between two   *)
(* points where it really suspends (an open request, asyncio.sleep, a      *)
(* blocked semaphore acquire); "await self._ensure_session()" never        *)
(* suspends, so it belongs to the step that calls it.                      *)
(*                                                                         *)
(* The aiohttp objects are modelled by the part of their contract the      *)
(* code relies on: ClientSession(connector=c) owns c (connector_owner      *)
(* defaults to True), ClientSession.close() closes the owned connector     *)
(* and drops it, ClientSession.closed is "the connector was dropped or is  *)
(* closed", and a request on a closed session raises RuntimeError.         *)
(***************************************************************************)
EXTENDS Integers, Sequences, FiniteSets

\* ---------------------------------------------------------------- bounds
\* max_retries is drawn from 0..MaxRetries when the fetcher is constructed
MaxRetries == 2
\* the longest URL list handed to a batch operation
MaxUrls == 3
\* how many calls (fetch, fetch_all, close) the sequential client makes
MaxCalls == 4

\* The gate sizes tried: up to one less than the longest list, so that units
\* have to wait at the gate.
MaxConcurrent == MaxUrls - 1

\* ------------------------------------------------------ program constants
\* the three User-Agent strings of _random_user_agent, by position
NumAgents == 3
\* asyncio.sleep(1) between attempts
RetryPause == 1

Agents == 1..NumAgents

\* self._session = None
NoSession == 0

VARIABLES
    timeout,           \* self._timeout: the total of the ClientTimeout, in seconds
    min_delay,         \* self._min_delay, in milliseconds
    max_delay,         \* self._max_delay, in milliseconds
    max_retries,       \* self._max_retries
    concurrent_tasks,  \* self._concurrent_tasks
    session,           \* self._session: NoSession or the identity of a ClientSession
    session_ua,        \* the User-Agent header of self._session (0 when there is none)
    created,           \* how many ClientSession objects were constructed so far
    detached,          \* the sessions whose own close() ran (their _connector is None)
    connector_closed,  \* self._connector.closed
    tasks,             \* the frames of the fetch(url) calls, direct or inside sem_fetch
    gathers,           \* the fetch_all_concurrent invocations started so far
    batch,             \* the last fetch_all call and how it ended
    closes,            \* how many close() calls were made
    budget             \* how many more calls the client is going to make

vars == <<timeout, min_delay, max_delay, max_retries, concurrent_tasks, session,
          session_ua, created, detached, connector_closed, tasks, gathers, batch,
          closes, budget>>

\* ---------------------------------------------------------------- network
Urls == {"a", "b", "c"}

\* The bytes the server sends for a URL: "hi", "e-acute" in two bytes, and a
\* lead byte followed by a byte that is no continuation byte.
ServerBody(u) ==
    CASE u = "a" -> <<104, 105>>
      [] u = "b" -> <<195, 169>>
      [] OTHER   -> <<195, 40>>

\* What a request on a live session can end in, other than a response.
NetworkErrors == {"ClientConnectionError", "TimeoutError"}

\* The classes derived from Exception that the model raises.
ExceptionClasses ==
    NetworkErrors \cup {"UnicodeDecodeError", "RuntimeError", "UnboundLocalError"}

IsContinuation(b) == b >= 128 /\ b <= 191

\* bytes.decode('utf-8') succeeds (sequences of one and two bytes)
RECURSIVE ValidUtf8(_)
ValidUtf8(bs) ==
    IF bs = <<>> THEN TRUE
    ELSE IF Head(bs) < 128 THEN ValidUtf8(Tail(bs))
    ELSE IF Head(bs) >= 194 /\ Head(bs) <= 223 /\ Len(bs) >= 2 /\ IsContinuation(bs[2])
         THEN ValidUtf8(Tail(Tail(bs)))
    ELSE FALSE

\* bytes.decode('utf-8'): the code points of a valid byte sequence
RECURSIVE Utf8Decode(_)
Utf8Decode(bs) ==
    IF bs = <<>> THEN <<>>
    ELSE IF Head(bs) < 128 THEN <<Head(bs)>> \o Utf8Decode(Tail(bs))
    ELSE <<(Head(bs) - 192) * 64 + (bs[2] - 128)>> \o Utf8Decode(Tail(Tail(bs)))

\* ------------------------------------------------------------ fetch results
None == [kind |-> "None", text |-> <<>>]
Text(cs) == [kind |-> "str", text |-> cs]

\* ----------------------------------------------------------------- session
\* ClientSession.closed
SessionClosed(s) == s \in detached \/ connector_closed

\* a test that has _ensure_session construct a session on every call
NeedsSessionAlways == TRUE

\* the test of _ensure_session
NeedsSession == session = NoSession \/ SessionClosed(session)

\* The User-Agent choices _ensure_session can make in this state (none when it
\* constructs nothing).
AgentChoices == IF NeedsSession THEN Agents ELSE {0}

\* an _ensure_session that gives a live session the next User-Agent
EnsureSessionRotates(a) ==
    IF NeedsSession
    THEN /\ session' = created + 1
         /\ created' = created + 1
         /\ session_ua' = a
    ELSE /\ UNCHANGED <<session, created>>
         /\ session_ua' = (session_ua % NumAgents) + 1

\* _ensure_session, with the User-Agent random.choice picked
EnsureSession(a) ==
    IF NeedsSession
    THEN /\ session' = created + 1
         /\ created' = created + 1
         /\ session_ua' = a
    ELSE UNCHANGED <<session, created, session_ua>>

\* self._session after _ensure_session ran in this state
EnsuredSession == IF NeedsSession THEN created + 1 ELSE session

\* The URL lists handed to the batch operations: the empty list and, for every
\* length up to MaxUrls, the lists that run through a, b, c from each start.
UrlCycle == <<"a", "b", "c">>
UrlLists ==
    {[i \in 1..n |-> UrlCycle[((i + k - 1) % 3) + 1]] : n \in 0..MaxUrls, k \in 0..2}

\* ------------------------------------------------------------------- fetch
\* The frame of one fetch(url) call.  kind is "fetch" for a call the client
\* makes itself and "unit" for the call inside a sem_fetch task of invocation
\* gather (slot is then its position in urls).  requests counts the GETs
\* issued (line 95), pauses the asyncio.sleep(1) calls (line 104), slept their
\* total in seconds, fails the attempts that ended in an exception, on the
\* session of the last GET, error the exception logged last.
NewTask(kind, g, slot, u, pc) ==
    [kind |-> kind, gather |-> g, slot |-> slot, url |-> u, pc |-> pc,
     attempt |-> 0, requests |-> 0, pauses |-> 0, slept |-> 0, fails |-> 0,
     result |-> None, on |-> NoSession, error |-> ""]

\* the call returned or raised
Final(rec) == rec.pc \in {"done", "raised"}

\* a loop that allows one attempt too many
LoopContinuesInclusive(rec) == rec.attempt <= max_retries

\* while attempt < self._max_retries
LoopContinues(rec) == rec.attempt < max_retries

\* an except clause that catches the client's connection errors only
CaughtClientErrors(cause) == cause = "ClientConnectionError"

\* except Exception
Caught(cause) == cause \in ExceptionClasses

\* an except block that retries without sleeping
OnExceptionNoSleep(rec, cause) ==
    IF Caught(cause)
    THEN [rec EXCEPT !.attempt = @ + 1, !.pc = "pause"]
    ELSE [rec EXCEPT !.pc = "raised"]

\* the except block: log, attempt += 1, await asyncio.sleep(1); an exception
\* the clause does not catch leaves the call
OnException(rec, cause) ==
    IF Caught(cause)
    THEN [rec EXCEPT !.attempt = @ + 1, !.pauses = @ + 1,
                     !.slept = @ + RetryPause, !.pc = "pause"]
    ELSE [rec EXCEPT !.pc = "raised"]

\* An attempt of the call ends in exception cause.
Failed(rec, cause) ==
    OnException([rec EXCEPT !.fails = @ + 1, !.error = cause], cause)

\* a fetch that raises once its attempts are used up
GiveUpRaises(rec) == [rec EXCEPT !.pc = "raised", !.error = "RuntimeError"]

\* after the loop: log the give-up line, return None
GiveUp(rec) == [rec EXCEPT !.pc = "done", !.result = None]

\* The loop test and, when it passes, self._session.get(url) on session s: a
\* closed session raises RuntimeError at once, a live one opens the request.
Attempt(rec, s) ==
    IF LoopContinues(rec)
    THEN LET sent == [rec EXCEPT !.requests = @ + 1, !.on = s]
         IN  IF SessionClosed(s)
             THEN Failed(sent, "RuntimeError")
             ELSE [sent EXCEPT !.pc = "request"]
    ELSE GiveUp(rec)

\* The open request ends: with a response, whose body is read, decoded and
\* returned, or with a network error.
Received(rec, outcome) ==
    IF outcome = "response"
    THEN IF ValidUtf8(ServerBody(rec.url))
         THEN [rec EXCEPT !.pc = "done", !.result = Text(Utf8Decode(ServerBody(rec.url)))]
         ELSE Failed(rec, "UnicodeDecodeError")
    ELSE Failed(rec, outcome)

TaskIds == 1..Len(tasks)
DirectTasks == {t \in TaskIds : tasks[t].kind = "fetch"}

\* ------------------------------------------------- fetch_all_concurrent
\* a result slot of asyncio.gather that no task has filled yet
Pending == [kind |-> "pending", text |-> <<>>]

\* The units of invocation g are the tasks first+1 .. first+len(urls).
Unit(g, i) == gathers[g].first + i
Units(g) == {Unit(g, i) : i \in 1..Len(gathers[g].urls)}

\* a collection that appends each result when its task completes
StoreResultOnCompletion(gr, rec) ==
    IF rec.pc = "done"
    THEN [gr EXCEPT !.results[
              1 + Cardinality({i \in 1..Len(gr.results) : gr.results[i] # Pending})] =
                  rec.result]
    ELSE [gr EXCEPT !.error = rec.error]

\* asyncio.gather keeps each task's result at the task's own position; the
\* exception of a task becomes the exception of the gather.
StoreResult(gr, rec) ==
    IF rec.pc = "done"
    THEN [gr EXCEPT !.results[rec.slot] = rec.result]
    ELSE [gr EXCEPT !.error = rec.error]

\* an exit from "async with semaphore" that keeps the permit
ReleasePermitLeak(gr) == gr

\* leaving "async with semaphore": the permit goes back
ReleasePermit(gr) == [gr EXCEPT !.sem = @ + 1]

\* a unit that keeps its permit when its fetch gave up
FinishedHoldsOnGiveUp(gr, t, rec) ==
    [(IF rec.pc = "done" /\ rec.result = None
      THEN StoreResult(gr, rec)
      ELSE ReleasePermit(StoreResult(gr, rec))) EXCEPT
        !.overtaken = @ \/ \E u \in (gr.first + 1)..(t - 1) : ~Final(tasks[u])]

\* Unit t of gr ends as rec.  overtaken notes that it ended while a unit of an
\* earlier URL had not.
Finished(gr, t, rec) ==
    [ReleasePermit(StoreResult(gr, rec)) EXCEPT
        !.overtaken = @ \/ \E u \in (gr.first + 1)..(t - 1) : ~Final(tasks[u])]

\* Task t moves to rec; a unit whose fetch returned or raised leaves sem_fetch.
Settle(t, rec) ==
    /\ tasks' = [tasks EXCEPT ![t] = rec]
    /\ IF rec.kind = "unit" /\ Final(rec)
       THEN gathers' = [gathers EXCEPT ![rec.gather] = Finished(@, t, rec)]
       ELSE UNCHANGED gathers

\* --------------------------------------------------------------- operations
\* The client calls fetch(u) and awaits it before its next fetch:
\* _ensure_session, then the first pass of the loop.
Fetch(u, a) ==
    /\ budget > 0
    /\ \A t \in DirectTasks : Final(tasks[t])
    /\ budget' = budget - 1
    /\ EnsureSession(a)
    /\ LET rec == Attempt(NewTask("fetch", 0, 0, u, "call"), EnsuredSession)
       IN  tasks' = IF DirectTasks = {}
                    THEN Append(tasks, rec)
                    ELSE [tasks EXCEPT ![CHOOSE t \in DirectTasks : TRUE] = rec]
    /\ UNCHANGED <<timeout, min_delay, max_delay, max_retries, concurrent_tasks,
                   detached, connector_closed,
                   gathers, batch, closes>>

\* The open request of task t ends.  A close() that ran meanwhile does not
\* settle how: the response may have arrived, and the task be ready to resume
\* with it, before close() ran.
Respond(t, outcome) ==
    /\ tasks[t].pc = "request"
    /\ Settle(t, Received(tasks[t], outcome))
    /\ UNCHANGED <<timeout, min_delay, max_delay, max_retries, concurrent_tasks,
                   session, session_ua, created,
                   detached, connector_closed, batch, closes, budget>>

\* a loop that calls _ensure_session again before every later attempt
WakeEnsures(t) ==
    /\ tasks[t].pc = "pause"
    /\ \E a \in AgentChoices :
          /\ EnsureSession(a)
          /\ Settle(t, Attempt(tasks[t], EnsuredSession))
    /\ UNCHANGED <<timeout, min_delay, max_delay, max_retries, concurrent_tasks,
                   detached, connector_closed, batch, closes, budget>>

\* asyncio.sleep(1) of task t is over: the next pass of the loop, on whatever
\* self._session is now.
Wake(t) ==
    /\ tasks[t].pc = "pause"
    /\ Settle(t, Attempt(tasks[t], session))
    /\ UNCHANGED <<timeout, min_delay, max_delay, max_retries, concurrent_tasks,
                   session, session_ua, created,
                   detached, connector_closed, batch, closes, budget>>

\* a test that takes the closed session for the live one
CloseGuardInverted == session # NoSession /\ SessionClosed(session)

\* if self._session and not self._session.closed
CloseGuard == session # NoSession /\ ~SessionClosed(session)

\* close(): ClientSession.close() closes the connector it owns, which is the
\* fetcher's one connector, and drops it.
Close ==
    /\ budget > 0
    /\ budget' = budget - 1
    /\ closes' = closes + 1
    /\ IF CloseGuard
       THEN /\ connector_closed' = TRUE
            /\ detached' = detached \cup {session}
       ELSE UNCHANGED <<connector_closed, detached>>
    /\ UNCHANGED <<timeout, min_delay, max_delay, max_retries, concurrent_tasks,
                   session, session_ua, created,
                   tasks, gathers, batch>>

\* fetch_all(urls): _ensure_session, results = [], then line 117 reads url,
\* a local of fetch_all (the for statement of line 119 binds it) that has no
\* value yet: UnboundLocalError, for every urls.  Lines 118-124 never run:
\* the call has made no self.fetch call (fetched) and no random delay (delays).
FetchAll(urls, a) ==
    /\ budget > 0
    /\ budget' = budget - 1
    /\ EnsureSession(a)
    /\ batch' = [state |-> "raised", urls |-> urls,
                 error |-> "UnboundLocalError", results |-> <<>>,
                 fetched |-> 0, delays |-> 0]
    /\ UNCHANGED <<timeout, min_delay, max_delay, max_retries, concurrent_tasks,
                   detached, connector_closed,
                   tasks, gathers, closes>>

\* a gate that lets one unit too many in
CanAcquireOffByOne(gr) == gr.sem >= 0

\* asyncio.Semaphore.acquire returns without waiting: a permit is free
CanAcquire(gr) == gr.sem > 0

\* fetch_all_concurrent(urls): _ensure_session, a semaphore of its own with
\* concurrent_tasks permits, one sem_fetch task per URL, then the gather.
FetchAllConcurrent(urls, a) ==
    /\ budget > 0
    /\ budget' = budget - 1
    /\ EnsureSession(a)
    /\ gathers' = Append(gathers,
           [urls |-> urls, first |-> Len(tasks), sem |-> concurrent_tasks,
            state |-> "running", results |-> [i \in 1..Len(urls) |-> Pending],
            error |-> "", overtaken |-> FALSE])
    /\ tasks' = tasks \o [i \in 1..Len(urls) |->
                              NewTask("unit", Len(gathers) + 1, i, urls[i], "wait")]
    /\ UNCHANGED <<timeout, min_delay, max_delay, max_retries, concurrent_tasks,
                   detached, connector_closed,
                   batch, closes>>

\* units that all draw on the gate of the first invocation
AcquireFromFirst(t) ==
    /\ tasks[t].pc = "wait"
    /\ CanAcquire(gathers[1])
    /\ gathers' = [gathers EXCEPT ![1].sem = @ - 1]
    /\ tasks' = [tasks EXCEPT ![t].pc = "delay"]
    /\ UNCHANGED <<timeout, min_delay, max_delay, max_retries, concurrent_tasks,
                   session, session_ua, created,
                   detached, connector_closed, batch, closes, budget>>

\* Unit t enters "async with semaphore", draws its delay and sleeps.  Which
\* waiting unit gets a free permit is left open.
Acquire(t) ==
    /\ tasks[t].pc = "wait"
    /\ CanAcquire(gathers[tasks[t].gather])
    /\ gathers' = [gathers EXCEPT ![tasks[t].gather].sem = @ - 1]
    /\ tasks' = [tasks EXCEPT ![t].pc = "delay"]
    /\ UNCHANGED <<timeout, min_delay, max_delay, max_retries, concurrent_tasks,
                   session, session_ua, created,
                   detached, connector_closed, batch, closes, budget>>

\* The delay of unit t is over: it calls self.fetch(url).
Delayed(t, a) ==
    /\ tasks[t].pc = "delay"
    /\ EnsureSession(a)
    /\ Settle(t, Attempt(tasks[t], EnsuredSession))
    /\ UNCHANGED <<timeout, min_delay, max_delay, max_retries, concurrent_tasks,
                   detached, connector_closed,
                   batch, closes, budget>>

\* await asyncio.gather(*tasks) of invocation g ends: with the exception of a
\* task as soon as there is one, else with the results once every task is done.
GatherDone(g) ==
    /\ gathers[g].state = "running"
    /\ \/ \E t \in Units(g) : tasks[t].pc = "raised"
       \/ \A t \in Units(g) : tasks[t].pc = "done"
    /\ gathers' = [gathers EXCEPT ![g].state =
                      IF \E t \in Units(g) : tasks[t].pc = "raised"
                      THEN "raised" ELSE "returned"]
    /\ UNCHANGED <<timeout, min_delay, max_delay, max_retries, concurrent_tasks,
                   session, session_ua, created,
                   detached, connector_closed, tasks, batch, closes, budget>>

\* ---------------------------------------------------------- specifications
\* the defaults of the timeout (seconds), min_delay and max_delay
\* (milliseconds) and concurrent_tasks parameters
DefaultTimeout == 30
DefaultMinDelay == 500
DefaultMaxDelay == 1500
DefaultConcurrentTasks == 3

\* __init__: the configuration stored, no session, an open connector, nothing
\* called yet.
Fresh ==
    /\ timeout = DefaultTimeout
    /\ min_delay = DefaultMinDelay
    /\ max_delay = DefaultMaxDelay
    /\ session = NoSession
    /\ session_ua = 0
    /\ created = 0
    /\ detached = {}
    /\ connector_closed = FALSE
    /\ tasks = <<>>
    /\ gathers = <<>>
    /\ batch = [state |-> "none", urls |-> <<>>, error |-> "", results |-> <<>>,
                fetched |-> 0, delays |-> 0]
    /\ closes = 0

\* What a request on a live session can end in.
Outcomes == {"response"} \cup NetworkErrors

\* A client that makes MaxCalls calls, each a fetch it awaits or a close().
Init ==
    /\ Fresh
    /\ max_retries \in 0..MaxRetries
    /\ concurrent_tasks = DefaultConcurrentTasks
    /\ budget = MaxCalls

Next ==
    \/ \E u \in Urls, a \in AgentChoices : Fetch(u, a)
    \/ \E t \in TaskIds, o \in Outcomes : Respond(t, o)
    \/ \E t \in TaskIds : Wake(t)
    \/ Close

Spec == Init /\ [][Next]_vars

\* A client that makes MaxCalls calls, each a fetch_all or a close().
NextSeq ==
    \/ \E urls \in UrlLists, a \in AgentChoices : FetchAll(urls, a)
    \/ Close

SpecSeq == Init /\ [][NextSeq]_vars

\* A client that makes one fetch_all_concurrent call; the requests of its
\* units end in a response or in a connection error.
InitConc ==
    /\ Fresh
    /\ max_retries \in 0..MaxRetries
    /\ concurrent_tasks \in 1..MaxConcurrent
    /\ budget = 1

NextConc ==
    \/ \E urls \in UrlLists, a \in AgentChoices : FetchAllConcurrent(urls, a)
    \/ \E t \in TaskIds : Acquire(t)
    \/ \E t \in TaskIds, a \in AgentChoices : Delayed(t, a)
    \/ \E t \in TaskIds, o \in {"response", "ClientConnectionError"} : Respond(t, o)
    \/ \E t \in TaskIds : Wake(t)
    \/ \E g \in 1..Len(gathers) : GatherDone(g)

SpecConc == InitConc /\ [][NextConc]_vars

\* The event loop runs every coroutine that is ready: a unit that can take a
\* permit takes it, a delay or a pause that is over is left, a gather whose
\* tasks are done returns; and every open request ends.
FairConc ==
    /\ WF_vars(\E t \in TaskIds : Acquire(t))
    /\ WF_vars(\E t \in TaskIds, a \in AgentChoices : Delayed(t, a))
    /\ WF_vars(\E t \in TaskIds, o \in {"response", "ClientConnectionError"} :
                  Respond(t, o))
    /\ WF_vars(\E t \in TaskIds : Wake(t))
    /\ WF_vars(\E g \in 1..Len(gathers) : GatherDone(g))

\* A client that makes one fetch_all_concurrent call, on the list of MaxUrls
\* URLs that starts with a, with fewer permits than URLs.
InitFair ==
    /\ Fresh
    /\ max_retries = MaxRetries - 1
    /\ concurrent_tasks \in 1..MaxConcurrent
    /\ budget = 1

NextFair ==
    \/ \E urls \in {l \in UrlLists : Len(l) = MaxUrls /\ l[1] = "a"},
          a \in AgentChoices : FetchAllConcurrent(urls, a)
    \/ \E t \in TaskIds : Acquire(t)
    \/ \E t \in TaskIds, a \in AgentChoices : Delayed(t, a)
    \/ \E t \in TaskIds, o \in {"response", "ClientConnectionError"} : Respond(t, o)
    \/ \E t \in TaskIds : Wake(t)
    \/ \E g \in 1..Len(gathers) : GatherDone(g)

SpecConcFair == InitFair /\ [][NextFair]_vars /\ FairConc

\* the lists of one or two URLs that start with a
MixLists == {l \in UrlLists : Len(l) \in 1..2 /\ l[1] = "a"}

\* A client that makes three calls, each a fetch of URL a that it awaits, a
\* fetch_all_concurrent (one at most) on a list of MixLists that it leaves
\* running, or a close(), so that a fetch, the units of an invocation and
\* close() interleave on the one fetcher.
InitMix ==
    /\ Fresh
    /\ max_retries = MaxRetries
    /\ concurrent_tasks \in 1..2
    /\ budget = 3

NextMix ==
    \/ \E a \in AgentChoices : Fetch("a", a)
    \/ /\ gathers = <<>>
       /\ \E urls \in MixLists, a \in AgentChoices : FetchAllConcurrent(urls, a)
    \/ \E t \in TaskIds : Acquire(t)
    \/ \E t \in TaskIds, a \in AgentChoices : Delayed(t, a)
    \/ \E t \in TaskIds, o \in {"response", "ClientConnectionError"} : Respond(t, o)
    \/ \E t \in TaskIds : Wake(t)
    \/ \E g \in 1..Len(gathers) : GatherDone(g)
    \/ Close

SpecMix == InitMix /\ [][NextMix]_vars

\* A client that makes two fetch_all_concurrent calls on lists of MixLists
\* and leaves both running, so that the units of two invocations interleave.
InitTwo ==
    /\ Fresh
    /\ max_retries = MaxRetries - 1
    /\ concurrent_tasks \in 1..2
    /\ budget = 2

NextTwo ==
    \/ \E urls \in MixLists, a \in AgentChoices : FetchAllConcurrent(urls, a)
    \/ \E t \in TaskIds : Acquire(t)
    \/ \E t \in TaskIds, a \in AgentChoices : Delayed(t, a)
    \/ \E t \in TaskIds, o \in {"response", "ClientConnectionError"} : Respond(t, o)
    \/ \E t \in TaskIds : Wake(t)
    \/ \E g \in 1..Len(gathers) : GatherDone(g)

SpecTwo == InitTwo /\ [][NextTwo]_vars

\* ------------------------------------------------------------------ claims
\* what fetch(u) returns when a request of it succeeds
Body(u) == Text(Utf8Decode(ServerBody(u)))

\* C1: a fetch call whose requests failed k < max_retries times and then
\* succeeded has returned the decoded body, issued exactly k+1 requests (one
\* when k = 0) and slept exactly k times, one second each; and a call that has
\* returned issues no further request (its frame never changes again).
C1_Succeeds ==
    /\ [](\A t \in TaskIds :
            tasks[t].pc = "done" /\ tasks[t].fails < max_retries
            => /\ tasks[t].result = Body(tasks[t].url)
               /\ tasks[t].requests = tasks[t].fails + 1
               /\ tasks[t].pauses = tasks[t].fails
               /\ tasks[t].slept = tasks[t].fails * RetryPause)
    /\ [][\A t \in TaskIds :
            tasks[t].pc = "done" /\ budget' = budget => tasks'[t] = tasks[t]]_vars

\* C1, witness: a call returned a body after at least one failed attempt.
C1_Witness ==
    \E t \in TaskIds :
        /\ tasks[t].pc = "done"
        /\ tasks[t].result = Body(tasks[t].url)
        /\ tasks[t].fails >= 1
        /\ tasks[t].requests = tasks[t].fails + 1

\* C2: no fetch call ever issues more than max_retries requests, and a call
\* whose requests failed max_retries times has returned None after exactly
\* max_retries requests.
C2_Exhausts ==
    \A t \in TaskIds :
        /\ tasks[t].requests <= max_retries
        /\ tasks[t].pc = "done" /\ tasks[t].fails = max_retries
           => tasks[t].result = None /\ tasks[t].requests = max_retries

\* C2, witness: a call gave up after MaxRetries failed requests.
C2_Witness ==
    \E t \in TaskIds :
        /\ tasks[t].pc = "done"
        /\ tasks[t].result = None
        /\ max_retries = MaxRetries
        /\ tasks[t].fails = max_retries
        /\ tasks[t].requests = max_retries

\* C3, as claimed: a call on a URL that always fails, with max_retries = n >= 1,
\* has made n attempts and n-1 pauses when it returns None (no pause after
\* the last failed attempt).
C3_PausesOnlyBetween ==
    \A t \in TaskIds :
        tasks[t].pc = "done" /\ tasks[t].fails = max_retries /\ max_retries >= 1
        => tasks[t].requests = max_retries /\ tasks[t].pauses = max_retries - 1

\* C4, as claimed: fetch_all on a non-empty list returns a list of the same
\* length whose element i is the outcome (body or None) of fetching urls[i].
C4_BatchReturns ==
    batch.state # "none" /\ batch.urls # <<>>
    => /\ batch.state = "returned"
       /\ Len(batch.results) = Len(batch.urls)
       /\ \A i \in 1..Len(batch.urls) : batch.results[i] \in {None, Body(batch.urls[i])}

GatherIds == 1..Len(gathers)

\* the units of invocation g whose request is open
OpenRequests(g) == {t \in Units(g) : tasks[t].pc = "request"}

\* C5: in every reachable state of a fetch_all_concurrent invocation, at most
\* concurrent_tasks of its units have an open request.
C5_BoundedRequests ==
    \A g \in GatherIds : Cardinality(OpenRequests(g)) <= concurrent_tasks

\* C5, witness: as many requests open as there are permits while another unit
\* waits at the gate.
C5_Witness ==
    \E g \in GatherIds :
        /\ Cardinality(OpenRequests(g)) = concurrent_tasks
        /\ \E t \in Units(g) : tasks[t].pc = "wait"

\* C6: the list fetch_all_concurrent returns has the length of urls, and its
\* element i is what the fetch of urls[i] returned (the body of urls[i] or
\* None), in whatever order the units got their permits and completed.
C6_InputOrder ==
    \A g \in GatherIds :
        gathers[g].state = "returned"
        => /\ Len(gathers[g].results) = Len(gathers[g].urls)
           /\ \A i \in 1..Len(gathers[g].urls) :
                 /\ gathers[g].results[i] = tasks[Unit(g, i)].result
                 /\ gathers[g].results[i] \in {None, Body(gathers[g].urls[i])}

\* C6, witness: an invocation returned after a unit had completed before the
\* unit of an earlier URL, and with a body and a None among its results.
C6_Witness ==
    \E g \in GatherIds :
        /\ gathers[g].state = "returned"
        /\ gathers[g].overtaken
        /\ \E i, j \in 1..Len(gathers[g].urls) :
              gathers[g].results[i] = None /\ gathers[g].results[j].kind = "str"

\* a unit of invocation g gives up in this step
Exhausts(t) ==
    /\ tasks[t].kind = "unit"
    /\ tasks[t].pc # "done"
    /\ tasks'[t].pc = "done"
    /\ tasks'[t].result = None

\* C7: a unit of fetch_all_concurrent whose URL exhausts its retries puts None
\* in its own result slot and touches nothing else: the step changes no other
\* unit and no other slot and leaves the invocation running, no unit ever
\* ends with an exception, and no invocation ends by raising.
C7_Isolated ==
    /\ [](\A g \in GatherIds :
            /\ gathers[g].state # "raised"
            /\ \A t \in Units(g) :
                  /\ tasks[t].pc # "raised"
                  /\ tasks[t].pc = "done" /\ tasks[t].result = None
                     => gathers[g].results[tasks[t].slot] = None)
    /\ [][\A t \in TaskIds :
            Exhausts(t)
            => /\ \A u \in TaskIds \ {t} : tasks'[u] = tasks[u]
               /\ \A i \in 1..Len(gathers[tasks[t].gather].urls) \ {tasks[t].slot} :
                     gathers'[tasks[t].gather].results[i] =
                         gathers[tasks[t].gather].results[i]
               /\ gathers'[tasks[t].gather].state = "running"]_vars

\* C7, witness: an invocation returned with None for a URL that used up its
\* retries in failed requests and with the body of another URL.
C7_Witness ==
    \E g \in GatherIds :
        /\ gathers[g].state = "returned"
        /\ \E i, j \in 1..Len(gathers[g].urls) :
              /\ gathers[g].results[i] = None
              /\ tasks[Unit(g, i)].fails = max_retries
              /\ max_retries >= 1
              /\ gathers[g].results[j] = Body(gathers[g].urls[j])

\* C8: whatever exception ends an attempt (a connection error, a timeout, a
\* body that is not UTF-8, a closed session), fetch counts it as exactly one
\* attempt and one pause, never ends with an exception, and returns either
\* the body, after fewer than max_retries failures, or None, after exactly
\* max_retries of them.
C8_OnePath ==
    \A t \in TaskIds :
        /\ tasks[t].pc # "raised"
        /\ tasks[t].attempt = tasks[t].fails
        /\ tasks[t].pauses = tasks[t].fails
        /\ tasks[t].fails > 0 => tasks[t].error \in ExceptionClasses
        /\ tasks[t].pc = "done"
           => \/ tasks[t].result = None /\ tasks[t].fails = max_retries
              \/ tasks[t].result = Body(tasks[t].url) /\ tasks[t].fails < max_retries

\* C8, witness: a call returned None after MaxRetries attempts, the last of
\* which ran into the request timeout.
C8_Witness ==
    \E t \in TaskIds :
        /\ tasks[t].pc = "done"
        /\ tasks[t].result = None
        /\ tasks[t].error = "TimeoutError"
        /\ tasks[t].fails = MaxRetries

\* C9: a close() call on a fetcher with no session or with a closed session
\* changes nothing (it only counts as a call); on a live session it keeps
\* self._session and leaves that session closed.
C9_CloseIdempotent ==
    [][closes' = closes + 1
       => IF session # NoSession /\ session \notin detached /\ ~connector_closed
          THEN /\ session' = session
               /\ session' \in detached' \/ connector_closed'
          ELSE UNCHANGED <<timeout, min_delay, max_delay, max_retries, concurrent_tasks,
                   session, session_ua,
                           created, detached, connector_closed, tasks, gathers,
                           batch>>]_vars

\* C9, witness: close() was called three times on a fetcher that made one
\* session, which is closed: two of the calls found nothing to close.
C9_Witness ==
    /\ closes = 3
    /\ created = 1
    /\ detached = {1}
    /\ SessionClosed(session)

\* C10, as claimed: a fetch called when self._session has been closed by
\* close() makes a new session, which is live, and issues its request on it.
C10_FreshLiveSession ==
    [][budget' = budget - 1 /\ closes' = closes /\ session \in detached
       => /\ session' # session
          /\ ~(session' \in detached' \/ connector_closed')
          /\ \A t \in DirectTasks :
                max_retries >= 1
                => tasks'[t].pc = "request" /\ tasks'[t].on = session']_vars

\* C11, as claimed: fetch_all on an empty list returns an empty list, fetches
\* nothing and raises nothing.
C11_EmptyBatch ==
    batch.state # "none" /\ batch.urls = <<>>
    => /\ batch.state = "returned"
       /\ batch.results = <<>>
       /\ batch.fetched = 0
       /\ batch.error = ""

\* C12: on a fetcher with max_retries = 0 every fetch call, whatever its URL,
\* is over as soon as it is made: it has returned None and has issued no
\* request and taken no pause.
C12_ZeroRetries ==
    max_retries = 0
    => \A t \in TaskIds :
          /\ tasks[t].pc = "done"
          /\ tasks[t].result = None
          /\ tasks[t].requests = 0
          /\ tasks[t].pauses = 0
          /\ tasks[t].slept = 0

\* C12, witness: with max_retries = 0, a fetch of "a", whose body decodes, on a
\* live session returned None.
C12_Witness ==
    /\ max_retries = 0
    /\ session # NoSession /\ ~SessionClosed(session)
    /\ \E t \in TaskIds :
          tasks[t].url = "a" /\ tasks[t].pc = "done" /\ tasks[t].result = None

\* C13, as claimed: a fetch_all call on n >= 1 URLs fetches every URL, the
\* first with no delay before it and each later one after exactly one random
\* delay (n fetches, n-1 delays), one URL after the other.
C13_DelaysBetween ==
    batch.state # "none" /\ batch.urls # <<>>
    => /\ batch.fetched = Len(batch.urls)
       /\ batch.delays = Len(batch.urls) - 1

\* the ClientSession objects constructed so far that are open
LiveSessions == {s \in 1..created : ~SessionClosed(s)}

\* C14: however fetch calls, the units of fetch_all_concurrent and close()
\* interleave, at most one session is open and it is self._session (none is
\* leaked), as long as the connector is open one session at most was
\* constructed, and a step that constructs a session constructs one, makes it
\* self._session, and is taken only when self._session is None or closed.
C14_OneLiveSession ==
    /\ [](/\ Cardinality(LiveSessions) <= 1
          /\ LiveSessions \subseteq {session}
          /\ (~connector_closed => created <= 1))
    /\ [][created' # created
            => /\ session = NoSession \/ session \in detached \/ connector_closed
               /\ created' = created + 1
               /\ session' = created']_vars

\* C14, witness: a fetch call and a unit of fetch_all_concurrent both have a
\* request open on the one session constructed so far, and no close() was made.
C14_Witness ==
    /\ created = 1 /\ closes = 0 /\ LiveSessions = {session}
    /\ \E t \in TaskIds, u \in TaskIds :
          /\ tasks[t].kind = "fetch" /\ tasks[t].pc = "request" /\ tasks[t].on = session
          /\ tasks[u].kind = "unit" /\ tasks[u].pc = "request" /\ tasks[u].on = session

\* the units of invocation g inside "async with semaphore": in their random
\* delay, in a request, or in a pause between attempts
Holding(g) == {t \in Units(g) : tasks[t].pc \in {"delay", "request", "pause"}}

\* C15: in every invocation the units that are delaying, fetching or pausing
\* are the permits taken, so they are at most concurrent_tasks and taken plus
\* free permits is concurrent_tasks; a unit outside the gate has issued no
\* request; and a step frees a permit of an invocation exactly when one unit
\* of it ends, one permit for one unit, after a body and after None alike.
C15_PermitHeld ==
    /\ [](\A g \in GatherIds :
             /\ gathers[g].sem >= 0
             /\ Cardinality(Holding(g)) <= concurrent_tasks
             /\ Cardinality(Holding(g)) + gathers[g].sem = concurrent_tasks
             /\ \A t \in Units(g) : tasks[t].pc = "wait" => tasks[t].requests = 0)
    /\ [][\A g \in GatherIds :
             LET ended == {t \in Units(g) : ~Final(tasks[t]) /\ Final(tasks'[t])}
             IN  /\ Cardinality(ended) <= 1
                 /\ gathers'[g].sem > gathers[g].sem <=> ended # {}
                 /\ ended # {} => gathers'[g].sem = gathers[g].sem + 1]_vars

\* C15, witness: an invocation on more URLs than permits has all its units
\* done, one with a body and one with None after its attempts, and every
\* permit is free again.
C15_Witness ==
    \E g \in GatherIds :
        /\ Len(gathers[g].urls) > concurrent_tasks
        /\ \A t \in Units(g) : tasks[t].pc = "done"
        /\ \E t \in Units(g) : tasks[t].result = None /\ tasks[t].requests = max_retries
        /\ \E t \in Units(g) : tasks[t].result # None
        /\ gathers[g].sem = concurrent_tasks

\* every unit of invocation g returned from its fetch, with a body or with None
AllDone(g) == \A t \in Units(g) : tasks[t].pc = "done"

\* C16: under FairConc a fetch_all_concurrent call returns; every unit it
\* launched gets past the gate; and when it returns every unit has returned
\* from its fetch and every permit is free.
C16_Returns ==
    /\ \A t \in 1..MaxUrls :
          (t \in TaskIds /\ tasks[t].pc = "wait")
              ~> (t \in TaskIds /\ tasks[t].pc # "wait")
    /\ (gathers # <<>>) ~> (gathers # <<>> /\ gathers[1].state = "returned")
    /\ [](\A g \in GatherIds :
             gathers[g].state = "returned"
             => AllDone(g) /\ gathers[g].sem = concurrent_tasks)

\* C16, witness: a call on the longest list, with fewer permits than URLs,
\* has returned, and a unit of a later URL was past the gate and done before a
\* unit of an earlier one.
C16_Witness ==
    \E g \in GatherIds :
        /\ Len(gathers[g].urls) = MaxUrls
        /\ concurrent_tasks < MaxUrls
        /\ gathers[g].overtaken
        /\ gathers[g].state = "returned"
        /\ gathers[g].sem = concurrent_tasks

\* C17: every invocation has a gate of its own.  The units of an invocation
\* inside the gate are at most concurrent_tasks, whatever the other invocation
\* does; the free permits of an invocation go down only in a step in which a
\* unit of that invocation enters its gate, by one, and every unit that enters
\* a gate takes the permit from the gate of its own invocation.
C17_OwnGate ==
    /\ [](\A g \in GatherIds :
             /\ Cardinality(Holding(g)) <= concurrent_tasks
             /\ gathers[g].sem = concurrent_tasks - Cardinality(Holding(g)))
    /\ [][\A g \in GatherIds :
             LET entered == {t \in Units(g) : tasks[t].pc = "wait" /\ tasks'[t].pc # "wait"}
             IN  /\ gathers'[g].sem < gathers[g].sem => entered # {}
                 /\ entered # {} => gathers'[g].sem = gathers[g].sem - 1]_vars

\* C17, witness: two invocations overlap; each has as many units with an open
\* request on the one shared session as it has permits, and a unit waiting at
\* its gate: 2 * concurrent_tasks requests are open.
C17_Witness ==
    /\ Len(gathers) = 2 /\ created = 1
    /\ \A g \in GatherIds :
          /\ gathers[g].state = "running"
          /\ Cardinality(OpenRequests(g)) = concurrent_tasks
          /\ \A t \in OpenRequests(g) : tasks[t].on = session
          /\ \E t \in Units(g) : tasks[t].pc = "wait"
    /\ Cardinality({t \in TaskIds : tasks[t].pc = "request"}) = 2 * concurrent_tasks

\* C18: a step taken while self._session is a live session, the steps that
\* call _ensure_session among them, leaves the session object and its
\* User-Agent as they are and constructs nothing; no step changes the stored
\* configuration; and a request issued by such a step goes out on that session.
C18_EnsureFrame ==
    /\ [][session # NoSession /\ session \notin detached /\ ~connector_closed
            => /\ session' = session
               /\ session_ua' = session_ua
               /\ created' = created
               /\ \A t \in DOMAIN tasks' :
                     (t \notin TaskIds \/ tasks'[t].requests # tasks[t].requests)
                     /\ tasks'[t].requests > 0
                     => tasks'[t].on = session]_vars
    /\ [][/\ timeout' = timeout
          /\ min_delay' = min_delay
          /\ max_delay' = max_delay
          /\ max_retries' = max_retries
          /\ concurrent_tasks' = concurrent_tasks]_vars

\* C18, witness: three operations were started and no close(); the session
\* the first of them constructed is live, and a fetch call and a unit that
\* found it there got their bodies on it.
C18_Witness ==
    /\ budget = 0 /\ closes = 0 /\ created = 1 /\ session = 1
    /\ ~SessionClosed(session)
    /\ \E t \in TaskIds, u \in TaskIds :
          /\ tasks[t].kind = "fetch" /\ tasks[u].kind = "unit"
          /\ tasks[t].pc = "done" /\ tasks[t].result = Body(tasks[t].url)
          /\ tasks[u].pc = "done" /\ tasks[u].result = Body(tasks[u].url)
          /\ tasks[t].on = session /\ tasks[u].on = session

\* C19, as claimed: a step that constructs a session leaves it bound to an
\* open connector, after a close() too.
C19_OpenPool == [][created' # created => ~connector_closed']_vars

\* A step moves call t on from an open request or a pause.
Resumes(t) == tasks[t].pc \in {"request", "pause"} /\ tasks'[t] # tasks[t]

\* C20, amended: a fetch call, alone or as a unit, never raises and issues at
\* most max_retries requests; once it has issued its first request no step of
\* it constructs a session or changes self._session; and when it leaves a
\* pause after close() has closed the connector it either issues one more
\* request, which fails with RuntimeError and is counted and paused for as any
\* failed attempt, or is out of attempts and returns None.
C20_ClosedUnderway ==
    /\ [](\A t \in TaskIds :
             tasks[t].pc # "raised" /\ tasks[t].requests <= max_retries)
    /\ [][\A t \in TaskIds :
             Resumes(t)
             => /\ created' = created /\ session' = session
                /\ tasks[t].pc = "pause" /\ connector_closed
                   => \/ /\ tasks'[t].pc = "pause"
                         /\ tasks'[t].error = "RuntimeError"
                         /\ tasks'[t].requests = tasks[t].requests + 1
                         /\ tasks'[t].fails = tasks[t].fails + 1
                         /\ tasks'[t].attempt = tasks[t].attempt + 1
                      \/ /\ tasks'[t].pc = "done"
                         /\ tasks'[t].result = None
                         /\ tasks'[t].requests = tasks[t].requests
                         /\ tasks[t].attempt = max_retries]_vars

\* C20, as claimed: besides, a call whose request was open when close()
\* completed does not return a body.
C20_ReturnsAbsent ==
    /\ C20_ClosedUnderway
    /\ [][\A t \in TaskIds :
             Resumes(t) /\ tasks[t].pc = "request" /\ SessionClosed(tasks[t].on)
             => ~(tasks'[t].pc = "done" /\ tasks'[t].result # None)]_vars

\* C20, witness: one session was constructed and close() closed it while a
\* fetch call and a unit were under way; both went on to fail their later
\* attempts with RuntimeError and returned None after max_retries requests.
C20_Witness ==
    /\ created = 1 /\ connector_closed /\ max_retries >= 2
    /\ \E t \in TaskIds, u \in TaskIds :
          /\ tasks[t].kind = "fetch" /\ tasks[u].kind = "unit"
          /\ \A c \in {t, u} :
                /\ tasks[c].pc = "done" /\ tasks[c].result = None
                /\ tasks[c].error = "RuntimeError"
                /\ tasks[c].requests = max_retries

====
